---- MODULE Spec2Model ----
(***************************************************************************)
(* A model of src/library.py: the Book record, the Library store (the      *)
(* in-memory list `books` and its backing JSON file) and the operations    *)
(* of the store: construction with load_books, add_book, remove_book,      *)
(* change_status, find_books and list_books.                               *)
(*                                                                         *)
(* Texts (titles, authors, search terms) are sequences of one-character    *)
(* strings, so that str.lower() and the substring test `in` are computed.  *)
(* An Optional argument is a sequence: <<>> is None and <<v>> is the       *)
(* value v.  A reference to a Book of the list is its position (0 is       *)
(* None), because two Book objects with equal fields are still two         *)
(* objects.                                                                *)
(***************************************************************************)
EXTENDS Integers, Sequences, FiniteSets, TLC

VARIABLES
    pc,       \* "start": before Library("library.json"); "ready": the store exists; "crashed": the constructor raised
    file,     \* the content of storage_file
    books,    \* Library.books
    call,     \* the last call made on the store, with its arguments
    ret,      \* the value that call returned
    diag,     \* the messages that call printed
    created   \* ids given by the add_book calls made since the last removal

vars == <<pc, file, books, call, ret, diag, created>>

----------------------------------------------------------------------------
(* Bounds *)

MaxBooks == 3   \* add_book is not called on a list of MaxBooks Books
MaxId    == 3   \* remove_book and change_status are called with ids 1..MaxId

----------------------------------------------------------------------------
(* Texts *)

None == <<>>
Some(v) == <<v>>

Dune       == <<"D", "u">>
uD         == <<"u", "D">>
Herbert    == <<"H", "e">>
Asimov     == <<"A", "s">>
EmptyText  == <<>>

\* str.lower() on the characters used here
LowerChar(c) ==
    CASE c = "D" -> "d"
      [] c = "U" -> "u"
      [] c = "H" -> "h"
      [] c = "E" -> "e"
      [] c = "A" -> "a"
      [] c = "S" -> "s"
      [] OTHER   -> c

lower(s) == [i \in 1..Len(s) |-> LowerChar(s[i])]

\* Python's `needle in hay` on strings
contains(needle, hay) ==
    \E i \in 0..(Len(hay) - Len(needle)) :
        SubSeq(hay, i + 1, i + Len(needle)) = needle

\* truth value of an Optional[str] and of an Optional[int] in an `if`
truthy_str(opt) == opt # None /\ opt[1] # EmptyText
truthy_int(opt) == opt # None /\ opt[1] # 0

----------------------------------------------------------------------------
(* Book *)

DefaultStatus == "available"     \* the literal "в наличии"
Lost          == "lost"          \* a text that is neither of the two usual statuses

BookKeys == {"id", "title", "author", "year", "status"}

Book(title, author, year, book_id, status) ==
    [id |-> book_id, title |-> title, author |-> author,
     year |-> year, status |-> status]

to_dict_swapped(self) ==
    [id |-> self.id, title |-> self.author, author |-> self.title,
     year |-> self.year, status |-> self.status]

to_dict(self) ==
    [id |-> self.id, title |-> self.title, author |-> self.author,
     year |-> self.year, status |-> self.status]

\* data["k"] raises KeyError when the key is missing
from_dict_lenient(data) ==
    IF (BookKeys \ {"status"}) \subseteq DOMAIN data
    THEN [raised |-> FALSE,
          value  |-> Book(data["title"], data["author"], data["year"], data["id"],
                          IF "status" \in DOMAIN data THEN data["status"]
                                                      ELSE DefaultStatus)]
    ELSE [raised |-> TRUE, value |-> <<>>]

from_dict(data) ==
    IF BookKeys \subseteq DOMAIN data
    THEN [raised |-> FALSE,
          value  |-> Book(data["title"], data["author"], data["year"],
                          data["id"], data["status"])]
    ELSE [raised |-> TRUE, value |-> <<>>]

----------------------------------------------------------------------------
(* The backing file.  kind is "absent" (no such path), "blank" (empty or   *)
(* whitespace only), "invalid" (text that json.loads rejects) or "json"    *)
(* (the text of a JSON array of objects, doc being the array).             *)

FileOf(kind, doc) == [kind |-> kind, doc |-> doc]

\* json.dump(list, file): the file holds the text of that array
json_dump(list) == FileOf("json", list)

\* the list comprehension of load_books: the Books of the array, or the
\* KeyError of the first element that lacks a key
books_of(doc) ==
    IF \E i \in 1..Len(doc) : from_dict(doc[i]).raised
    THEN [raised |-> TRUE, value |-> <<>>]
    ELSE [raised |-> FALSE,
          value  |-> [i \in 1..Len(doc) |-> from_dict(doc[i]).value]]

DecodeMessage == "JSON decode error"

\* load_books on a store whose list is `old`: the outcome, the list and
\* the messages printed
load_books_uncaught(f, old) ==
    CASE f.kind = "absent"  -> [outcome |-> "ok", books |-> old, diag |-> <<>>]
      [] f.kind = "blank"   -> [outcome |-> "ok", books |-> old, diag |-> <<>>]
      [] f.kind = "invalid" -> [outcome |-> "raised", books |-> old, diag |-> <<>>]
      [] f.kind = "json"    ->
            IF books_of(f.doc).raised
            THEN [outcome |-> "raised", books |-> old, diag |-> <<>>]
            ELSE [outcome |-> "ok", books |-> books_of(f.doc).value, diag |-> <<>>]

load_books(f, old) ==
    CASE f.kind = "absent"  -> [outcome |-> "ok", books |-> old, diag |-> <<>>]
      [] f.kind = "blank"   -> [outcome |-> "ok", books |-> old, diag |-> <<>>]
      [] f.kind = "invalid" -> [outcome |-> "ok", books |-> old,
                                diag |-> <<DecodeMessage>>]
      [] f.kind = "json"    ->
            IF books_of(f.doc).raised
            THEN [outcome |-> "raised", books |-> old, diag |-> <<>>]
            ELSE [outcome |-> "ok", books |-> books_of(f.doc).value, diag |-> <<>>]

save_books(list) == json_dump([i \in 1..Len(list) |-> to_dict(list[i])])

----------------------------------------------------------------------------
(* The operations on the list *)

SeqMax(s) == CHOOSE m \in {s[i] : i \in 1..Len(s)} :
                 \A j \in 1..Len(s) : s[j] <= m

ids_of(list) == [i \in 1..Len(list) |-> list[i].id]

generate_id_len(list) == Len(list) + 1

generate_id_nostep(list) ==
    IF list # <<>> THEN SeqMax(ids_of(list)) ELSE 1

_generate_id(list) ==
    IF list # <<>> THEN SeqMax(ids_of(list)) + 1 ELSE 1

\* the position of the first Book with that id, 0 for None
find_book_by_id(list, book_id) ==
    IF \E i \in 1..Len(list) : list[i].id = book_id
    THEN CHOOSE i \in 1..Len(list) :
            /\ list[i].id = book_id
            /\ \A j \in 1..(i - 1) : list[j].id # book_id
    ELSE 0

\* self.books.remove(book), book being the object at position i
list_remove_last(list, i) == SubSeq(list, 1, Len(list) - 1)

list_remove(list, i) == SubSeq(list, 1, i - 1) \o SubSeq(list, i + 1, Len(list))

\* book.status = new_status, book being the object at position i
set_status_all(list, i, new_status) ==
    [j \in 1..Len(list) |-> [list[j] EXCEPT !.status = new_status]]

set_status(list, i, new_status) == [list EXCEPT ![i].status = new_status]

\* the list find_books returns
find_books_result(list, title, author, year) ==
    LET r1 == IF truthy_str(title)
              THEN SelectSeq(list, LAMBDA book :
                       contains(lower(title[1]), lower(book.title)))
              ELSE list
        r2 == IF truthy_str(author)
              THEN SelectSeq(r1, LAMBDA book :
                       contains(lower(author[1]), lower(book.author)))
              ELSE r1
        r3 == IF truthy_int(year)
              THEN SelectSeq(r2, LAMBDA book : book.year = year[1])
              ELSE r2
    IN r3

\* find_books builds a new list as soon as one filter runs; otherwise
\* `result` is still self.books itself
find_books_is_alias(title, author, year) ==
    ~truthy_str(title) /\ ~truthy_str(author) /\ ~truthy_int(year)

----------------------------------------------------------------------------
(* Inputs *)

Statuses == {DefaultStatus, Lost}

\* the (title, author, year) given to add_book
NewBooks == { <<Dune, Herbert, 1965>>, <<uD, Asimov, 0>> }

\* the (title, author, year) given to find_books
Queries ==
    { <<None, None, None>>,
      <<Some(EmptyText), None, None>>,
      <<Some(<<"d">>), None, None>>,
      <<Some(<<"D", "U">>), None, None>>,
      <<None, Some(<<"h", "e">>), None>>,
      <<Some(<<"d">>), Some(<<"x">>), None>>,
      <<None, None, Some(1965)>>,
      <<None, None, Some(0)>>,
      <<Some(<<"d">>), Some(<<"h", "e">>), Some(1965)>> }

Rec(id, nb, status) == Book(nb[1], nb[2], nb[3], id, status)

D1 == to_dict(Rec(1, <<Dune, Herbert, 1965>>, DefaultStatus))
D2 == to_dict(Rec(2, <<uD, Asimov, 0>>, Lost))
D3 == to_dict(Rec(3, <<uD, Asimov, 0>>, DefaultStatus))
\* a record without "status", and one with a sixth key
DNoStatus == [id |-> 2, title |-> uD, author |-> Asimov, year |-> 0]
DExtra    == [id |-> 1, title |-> Dune, author |-> Herbert, year |-> 1965,
              status |-> DefaultStatus, isbn |-> 7]

InitFiles ==
    { FileOf("absent", <<>>), FileOf("blank", <<>>), FileOf("invalid", <<>>),
      FileOf("json", <<>>),
      FileOf("json", <<D1>>),
      FileOf("json", <<D3, D1>>),
      FileOf("json", <<D2, D2>>),
      FileOf("json", <<D1, DNoStatus>>),
      FileOf("json", <<DExtra>>) }

NoCall == [op |-> "none", args |-> <<>>]
NoRet  == [ref |-> "none", list |-> <<>>]

----------------------------------------------------------------------------
(* The state machine *)

Init ==
    /\ pc = "start"
    /\ file \in InitFiles
    /\ books = <<>>
    /\ call = NoCall
    /\ ret = NoRet
    /\ diag = <<>>
    /\ created = <<>>

\* Library(storage_file): self.books = [] and then load_books()
Library_init ==
    /\ pc = "start"
    /\ LET r == load_books(file, <<>>) IN
        /\ pc' = IF r.outcome = "ok" THEN "ready" ELSE "crashed"
        /\ books' = r.books
        /\ diag' = r.diag
    /\ call' = [op |-> "init", args |-> <<>>]
    /\ ret' = NoRet
    /\ UNCHANGED <<file, created>>

add_book(title, author, year) ==
    /\ pc = "ready"
    /\ Len(books) < MaxBooks
    /\ LET new_id == _generate_id(books)
           new_book == Book(title, author, year, new_id, DefaultStatus)
       IN /\ books' = Append(books, new_book)
          /\ created' = Append(created, new_id)
    /\ file' = save_books(books')
    /\ call' = [op |-> "add", args |-> <<title, author, year>>]
    /\ ret' = NoRet
    /\ diag' = <<>>
    /\ UNCHANGED pc

NotFoundMessage(book_id) == <<"not found", book_id>>

remove_book(book_id) ==
    /\ pc = "ready"
    /\ LET book == find_book_by_id(books, book_id) IN
         IF book # 0
         THEN /\ books' = list_remove(books, book)
              /\ file' = save_books(books')
              /\ diag' = <<>>
              /\ created' = <<>>
         ELSE /\ diag' = <<NotFoundMessage(book_id)>>
              /\ UNCHANGED <<books, file, created>>
    /\ call' = [op |-> "remove", args |-> <<book_id>>]
    /\ ret' = NoRet
    /\ UNCHANGED pc

change_status(book_id, new_status) ==
    /\ pc = "ready"
    /\ LET book == find_book_by_id(books, book_id) IN
         IF book # 0
         THEN /\ books' = set_status(books, book, new_status)
              /\ file' = save_books(books')
              /\ diag' = <<>>
         ELSE /\ diag' = <<NotFoundMessage(book_id)>>
              /\ UNCHANGED <<books, file>>
    /\ call' = [op |-> "change", args |-> <<book_id, new_status>>]
    /\ ret' = NoRet
    /\ UNCHANGED <<pc, created>>

find_books(title, author, year) ==
    /\ pc = "ready"
    /\ ret' = IF find_books_is_alias(title, author, year)
              THEN [ref |-> "books", list |-> <<>>]
              ELSE [ref |-> "new",
                    list |-> find_books_result(books, title, author, year)]
    /\ call' = [op |-> "find", args |-> <<title, author, year>>]
    /\ diag' = <<>>
    /\ UNCHANGED <<pc, file, books, created>>

list_books ==
    /\ pc = "ready"
    /\ ret' = [ref |-> "books", list |-> <<>>]
    /\ call' = [op |-> "list", args |-> <<>>]
    /\ diag' = <<>>
    /\ UNCHANGED <<pc, file, books, created>>

\* the list the caller holds after find_books or list_books
RetList == IF ret.ref = "books" THEN books ELSE ret.list

AddStep    == \E nb \in NewBooks : add_book(nb[1], nb[2], nb[3])
RemoveStep == \E book_id \in 1..MaxId : remove_book(book_id)
ChangeStep == \E book_id \in 1..MaxId, s \in Statuses : change_status(book_id, s)
FindStep   == \E q \in Queries : find_books(q[1], q[2], q[3])

Next ==
    \/ Library_init
    \/ AddStep
    \/ RemoveStep
    \/ ChangeStep
    \/ FindStep
    \/ list_books

Spec == Init /\ [][Next]_vars

----------------------------------------------------------------------------
(* A caller that changes the list it got from list_books or find_books.    *)
(* When that list is self.books itself (ret.ref = "books") the change is a *)
(* change of the store's list; nothing is saved.                           *)

ForeignBook == Book(Dune, Herbert, 1965, 1, DefaultStatus)

\* the caller changes the list that the call just made returned
caller_mutate(how, new_list) ==
    /\ pc = "ready"
    /\ call.op \in {"find", "list"}
    /\ IF ret.ref = "books"
       THEN /\ books' = new_list
            /\ created' = <<>>
            /\ UNCHANGED ret
       ELSE /\ ret' = [ret EXCEPT !.list = new_list]
            /\ UNCHANGED <<books, created>>
    /\ call' = [op |-> "caller", args |-> <<how>>]
    /\ diag' = <<>>
    /\ UNCHANGED <<pc, file>>

caller_append ==
    /\ call.op \in {"find", "list"}
    /\ Len(RetList) < MaxBooks
    /\ caller_mutate("append", Append(RetList, ForeignBook))

caller_pop ==
    /\ call.op \in {"find", "list"}
    /\ RetList # <<>>
    /\ caller_mutate("pop", SubSeq(RetList, 1, Len(RetList) - 1))

NextAlias ==
    \/ Next
    \/ caller_append
    \/ caller_pop

SpecAlias == Init /\ [][NextAlias]_vars

----------------------------------------------------------------------------
(* Properties *)

UniqueIds(list) ==
    \A i, j \in 1..Len(list) : i # j => list[i].id # list[j].id

\* no two records of the file's array carry the same id
DocIdsUnique(f) ==
    \A i, j \in 1..Len(f.doc) :
        (i # j /\ "id" \in DOMAIN f.doc[i] /\ "id" \in DOMAIN f.doc[j])
            => f.doc[i]["id"] # f.doc[j]["id"]

\* the file is the JSON array of exactly the five fields of each Book
Holds(f, list) ==
    /\ f.kind = "json"
    /\ Len(f.doc) = Len(list)
    /\ \A i \in 1..Len(list) :
          /\ DOMAIN f.doc[i] = BookKeys
          /\ f.doc[i]["id"] = list[i].id
          /\ f.doc[i]["title"] = list[i].title
          /\ f.doc[i]["author"] = list[i].author
          /\ f.doc[i]["year"] = list[i].year
          /\ f.doc[i]["status"] = list[i].status

\* a fresh store over the file loads exactly this list
Reloads(f, list) ==
    LET r == load_books(f, <<>>) IN
        r.outcome = "ok" /\ r.diag = <<>> /\ r.books = list

Mutated == call.op \in {"add", "remove", "change"} /\ diag = <<>>

Present(list, book_id) == \E i \in 1..Len(list) : list[i].id = book_id

IsFirstWithId(list, i, book_id) ==
    /\ i \in 1..Len(list)
    /\ list[i].id = book_id
    /\ \A j \in 1..(i - 1) : list[j].id # book_id

\* `after` is `before` without its element at position i
WithoutElement(before, after, i) ==
    /\ Len(after) = Len(before) - 1
    /\ \A j \in 1..(i - 1) : after[j] = before[j]
    /\ \A j \in i..Len(after) : after[j] = before[j + 1]

\* some element of the file's array lacks one of the five keys
HasMissingKey(f) ==
    f.kind = "json" /\ \E i \in 1..Len(f.doc) : ~(BookKeys \subseteq DOMAIN f.doc[i])

\* C1 as stated: in every state of a constructed store, whatever file was
\* loaded, no two Books of the collection have the same id.
C1_UniqueAfterAnyLoad == pc = "ready" => UniqueIds(books)

\* C1 amended: when the records of the loaded file have pairwise distinct
\* ids, the loaded collection has pairwise distinct ids, and add_book,
\* remove_book and change_status keep the ids of the collection distinct.
C1_UniqueIdsKept ==
    [][(IF pc = "start" THEN DocIdsUnique(file) ELSE UniqueIds(books))
          => UniqueIds(books')]_vars

C1_Witness ==
    /\ call.op = "add"
    /\ Len(books) = 3
    /\ books[1].id = 3
    /\ UniqueIds(books)

\* C2: the ids given by a run of add_book calls are strictly increasing,
\* hence pairwise distinct.
C2_AddedIdsIncrease ==
    \A i, j \in 1..Len(created) : i < j => created[i] < created[j]

C2_Witness == call.op = "add" /\ Len(created) = 3

\* C3: a successful add_book, remove_book or change_status leaves the file
\* holding exactly the collection, a fresh store over the file then loads a
\* list equal to the collection, and this stays so until the next mutation.
C3_WriteThrough ==
    [][/\ Mutated' => (Holds(file', books') /\ Reloads(file', books'))
       /\ (pc = "ready" /\ Reloads(file, books)) => Reloads(file', books')]_vars

C3_Witness ==
    /\ call.op = "change"
    /\ diag = <<>>
    /\ Len(books) = 2
    /\ books[1].title # books[1].author
    /\ Reloads(file, books)

\* a Book satisfies every criterion that was passed (a criterion is passed
\* when it is not None)
Satisfies(book, title, author, year) ==
    /\ title # None =>
          \E i \in 0..Len(book.title) :
              /\ i + Len(title[1]) <= Len(book.title)
              /\ \A k \in 1..Len(title[1]) :
                    LowerChar(book.title[i + k]) = LowerChar(title[1][k])
    /\ author # None =>
          \E i \in 0..Len(book.author) :
              /\ i + Len(author[1]) <= Len(book.author)
              /\ \A k \in 1..Len(author[1]) :
                    LowerChar(book.author[i + k]) = LowerChar(author[1][k])
    /\ year # None => book.year = year[1]

\* C4: find_books returns, in collection order, exactly the Books that
\* satisfy every criterion passed, year 0 included.
C4_FindBooksExact ==
    call.op = "find" =>
        RetList = SelectSeq(books, LAMBDA book :
                      Satisfies(book, call.args[1], call.args[2], call.args[3]))

\* C5 as stated: remove_book of a present id removes that Book, keeps the
\* others in order, saves, and find_book_by_id of that id then finds nothing;
\* of an absent id it changes neither list nor file and prints not-found.
C5_RemoveThenNotFound ==
    [][call'.op = "remove" =>
         LET book_id == call'.args[1] IN
           IF Present(books, book_id)
           THEN /\ \E i \in 1..Len(books) :
                      books[i].id = book_id /\ WithoutElement(books, books', i)
                /\ Holds(file', books')
                /\ diag' = <<>>
                /\ find_book_by_id(books', book_id) = 0
           ELSE /\ books' = books
                /\ file' = file
                /\ diag' = <<NotFoundMessage(book_id)>>]_vars

\* C5 amended: remove_book of a present id removes the first Book with that
\* id, keeps the others in order and saves; find_book_by_id of that id then
\* finds nothing when no other Book had that id.  Of an absent id it changes
\* neither list nor file and prints not-found.
C5_RemoveFrame ==
    [][call'.op = "remove" =>
         LET book_id == call'.args[1] IN
           IF Present(books, book_id)
           THEN /\ \E i \in 1..Len(books) :
                      /\ IsFirstWithId(books, i, book_id)
                      /\ WithoutElement(books, books', i)
                      /\ (\A j \in 1..Len(books) : j # i => books[j].id # book_id)
                            => find_book_by_id(books', book_id) = 0
                /\ Holds(file', books')
                /\ diag' = <<>>
           ELSE /\ books' = books
                /\ file' = file
                /\ diag' = <<NotFoundMessage(book_id)>>]_vars

C5_Witness ==
    /\ call.op = "remove"
    /\ diag = <<>>
    /\ Len(books) = 2
    /\ call.args[1] < books[1].id
    /\ find_book_by_id(books, call.args[1]) = 0

\* C6: change_status of a present id sets the status of that one Book (the
\* first with the id) and saves; its other fields, its position and every
\* other Book stay as they were.  Of an absent id it changes neither list
\* nor file and prints not-found.
C6_ChangeStatusFrame ==
    [][call'.op = "change" =>
         LET book_id == call'.args[1]
             new_status == call'.args[2]
         IN
           IF Present(books, book_id)
           THEN /\ \E i \in 1..Len(books) :
                      /\ IsFirstWithId(books, i, book_id)
                      /\ Len(books') = Len(books)
                      /\ \A j \in 1..Len(books) : j # i => books'[j] = books[j]
                      /\ books'[i].status = new_status
                      /\ books'[i].id = books[i].id
                      /\ books'[i].title = books[i].title
                      /\ books'[i].author = books[i].author
                      /\ books'[i].year = books[i].year
                /\ Holds(file', books')
                /\ diag' = <<>>
           ELSE /\ books' = books
                /\ file' = file
                /\ diag' = <<NotFoundMessage(book_id)>>]_vars

C6_Witness ==
    /\ call.op = "change"
    /\ diag = <<>>
    /\ call.args[2] = Lost
    /\ Len(books) = 3
    /\ \E i, j \in 1..3 : books[i].status = Lost /\ books[j].status = DefaultStatus

\* C7: constructing a store over invalid JSON gives an empty collection and
\* one message, and an add_book that follows creates the Book with id 1 and
\* overwrites the file with a valid array of that one Book.
C7_InvalidJsonRecovery ==
    [][/\ (pc = "start" /\ file.kind = "invalid") =>
             /\ pc' = "ready"
             /\ books' = <<>>
             /\ Len(diag') = 1
             /\ file' = file
       /\ (file.kind = "invalid" /\ call'.op = "add") =>
             /\ Len(books') = 1
             /\ books'[1].id = 1
             /\ books'[1].title = call'.args[1]
             /\ books'[1].author = call'.args[2]
             /\ books'[1].year = call'.args[3]
             /\ Holds(file', books')
             /\ Reloads(file', books')]_vars

C7_Witness ==
    /\ call.op = "init"
    /\ file.kind = "invalid"
    /\ pc = "ready"
    /\ books = <<>>
    /\ Len(diag) = 1

\* C8 as stated: a file with a record that lacks a key is handled in the same
\* way as a decode failure: the store is constructed with an empty
\* collection and the decode message.
C8_LikeDecodeFailure ==
    (pc # "start" /\ HasMissingKey(file)) =>
        /\ pc = "ready"
        /\ books = <<>>
        /\ diag = <<DecodeMessage>>

\* C8 amended: a file with a record that lacks a key makes load fail as a
\* whole, no Book of the file entering the collection; the KeyError is not
\* caught, so the constructor raises and nothing is printed.
C8_MissingKeyAborts ==
    (pc # "start" /\ HasMissingKey(file)) =>
        /\ pc = "crashed"
        /\ books = <<>>
        /\ diag = <<>>

C8_Witness == pc = "crashed" /\ HasMissingKey(file) /\ Len(file.doc) = 2

\* C9: only add_book, remove_book and change_status (and the load of the
\* constructor) change the collection; what a caller does to a list it got
\* from list_books or find_books does not.
C9_OnlyStoreMutates ==
    [][books' # books => call'.op \in {"init", "add", "remove", "change"}]_vars

\* C10: add_book appends a Book with the default status whose id is 1 on an
\* empty collection and 1 + the greatest id present otherwise.
C10_NextId ==
    [][call'.op = "add" =>
         /\ Len(books') = Len(books) + 1
         /\ LET new_id == books'[Len(books')].id IN
              /\ \/ books = <<>> /\ new_id = 1
                 \/ /\ \E i \in 1..Len(books) : books[i].id = new_id - 1
                    /\ \A i \in 1..Len(books) : books[i].id <= new_id - 1
              /\ books' = Append(books,
                     [id |-> new_id, title |-> call'.args[1],
                      author |-> call'.args[2], year |-> call'.args[3],
                      status |-> DefaultStatus])]_vars

C10_Witness ==
    /\ call.op = "add"
    /\ created = <<3>>
    /\ Len(books) = 2
    /\ books[1].id = 2
    /\ books[2].id = 3

====
